---- MODULE Spec2Model ----
(***************************************************************************)
(* Donation settlement of Helping-hands-together: the request handlers of  *)
(* app.py, main.py and admin.py that write Donation.status and             *)
(* Campaign.raised_amount, and the webhook verifiers of payments.py; the   *)
(* admin's payment method registry, the amount the Paystack adapter sends, *)
(* and main.py's self-ping.                                                *)
(*                                                                         *)
(* Amounts are whole minor units (the code's floats are not modelled).     *)
(* Campaign deletion and the backup/import tooling of admin.py are left    *)
(* out: the donation rows and campaigns live for the whole run.            *)
(***************************************************************************)
EXTENDS Integers, FiniteSets, Sequences, TLC

\* ------------------------------------------------------------------ bounds
MaxAmount == 2         \* largest donated amount
MaxRaised == 3         \* largest raised_amount the model follows
MaxCredits == 2        \* most credits of one donation the model counts
MaxMethods == 6        \* most rows of the PaymentMethod table
MaxMilli == 40         \* donated amounts run from 1.000 to 1.000 + MaxMilli / 1000
MaxRate == 2           \* largest configured exchange rate
MaxCalls == 3          \* most runs of main.py's start-up block the model follows

DonationIds == {1, 2}  \* the donation rows (autoincrement ids)
CampaignIds == {1}     \* the campaigns; a request may name campaign 2, which is none
Amounts == 1..MaxAmount
MethodTypes == {"paypal", "paystack", "crypto", "bank"}
Users == {"anonymous", "user", "admin"}
MethodIds == 1..4
\* The registry the admin has configured: one method of each type, Paystack
\* and the bank transfer active, PayPal and crypto switched off.
Registry == [m \in MethodIds |->
               [type |-> CASE m = 1 -> "paypal" [] m = 2 -> "paystack"
                           [] m = 3 -> "crypto" [] OTHER -> "bank",
                active |-> m \in {2, 4}]]

\* ------------------------------------------------------------------- state
VARIABLES
    Donation,    \* the donation table: id -> row (NoRow while not inserted)
    Campaign,    \* the campaign table: id -> [raised_amount]
    PaymentMethod,   \* the payment method registry: id -> [type, active]
    last,        \* the last request served: [op, id, code, settled]
    credits,     \* history: id -> how often the donation's amount was credited
    session,     \* worker -> the request it is serving and what its ORM session holds
    hook,        \* the webhook request being handled, step by step
    payload,     \* the initialize request to Paystack: the amount given and sent
    keepalive    \* main.py's self-ping: its environment, flag, threads and pings

vars == <<Donation, Campaign, PaymentMethod, last, credits, session, hook, payload,
          keepalive>>

NoRow == [campaign_id |-> 0, amount |-> 0, payment_method |-> "none",
          transaction_id |-> 0, status |-> "absent"]

\* The two tables as one value, which the handlers below map to a new one.
DB == [Donation |-> Donation, Campaign |-> Campaign, PaymentMethod |-> PaymentMethod]

\* What a handler did: the tables it committed, its answer (the flash category
\* or the HTTP status), and the donation it credited (0: none).
Reply(db, code) == [db |-> db, code |-> code, settled |-> 0]

\* Donation.query.get(id): 0 stands for None.
Get(db, id) == IF id \in DonationIds /\ db.Donation[id].status # "absent" THEN id ELSE 0

\* Donation.query.filter_by(transaction_id=reference).first(): the row of the
\* lowest id carrying the reference, 0 for None.
FirstByTransactionId(db, reference) ==
    LET hits == {d \in DonationIds : db.Donation[d].status # "absent"
                                     /\ db.Donation[d].transaction_id = reference}
    IN IF hits = {} THEN 0 ELSE CHOOSE d \in hits : \A e \in hits : d <= e

\* donation.status = 'completed'; donation.campaign.raised_amount += donation.amount; commit
Settle(db, d) ==
    [db EXCEPT !.Donation[d].status = "completed",
               !.Campaign[db.Donation[d].campaign_id].raised_amount =
                   @ + db.Donation[d].amount]

Credited(db, d, code) == [db |-> Settle(db, d), code |-> code, settled |-> d]

\* A status write that also takes the donation's amount off its campaign.
SetStatusAndUncredit(db, d, s) ==
    [db EXCEPT !.Donation[d].status = s,
               !.Campaign[db.Donation[d].campaign_id].raised_amount =
                   @ - db.Donation[d].amount]

\* donation.status = s; commit
SetStatus(db, d, s) == [db EXCEPT !.Donation[d].status = s]

\* --------------------------------------------------------------- adapters
\* The provider's answer to a network call is an input of the request.
CaptureNet == {"auth_failed", "http_error", "COMPLETED", "PAYER_ACTION_REQUIRED"}
\* Paystack's verify answer: the HTTP outcome, data['status'], data['data']['status'].
VerifyNet == {[http |-> "error", status |-> FALSE, data_status |-> "none"],
              [http |-> "ok", status |-> FALSE, data_status |-> "success"],
              [http |-> "ok", status |-> TRUE, data_status |-> "success"],
              [http |-> "ok", status |-> TRUE, data_status |-> "failed"],
              [http |-> "ok", status |-> TRUE, data_status |-> "abandoned"]}

\* PayPalPayment.capture_order: {'error': ...} or the provider's JSON.
capture_order(order_id, net) ==
    IF net \in {"auth_failed", "http_error"}
    THEN [error |-> TRUE, status |-> "none"]
    ELSE [error |-> FALSE, status |-> net]

\* PaystackPayment.verify_transaction
verify_transaction(reference, net) ==
    IF net.http = "error" THEN [status |-> "error"]
    ELSE IF net.status /\ net.data_status = "success" THEN [status |-> "success"]
    ELSE [status |-> "failed"]

\* --------------------------------------------------------------- handlers
\* main.py confirm_manual_payment
confirm_manual_payment(db, donation_id) ==
    IF Get(db, donation_id) = 0 THEN Reply(db, "404")
    ELSE Reply(SetStatus(db, donation_id, "awaiting_verification"), "success")

\* app.py donation_cancel
donation_cancel(db, donation_id) ==
    IF Get(db, donation_id) # 0
    THEN Reply(SetStatus(db, donation_id, "cancelled"), "info")
    ELSE Reply(db, "info")

\* app.py paypal_success (main.py's has the same body)
paypal_success(db, donation_id, token, net) ==
    IF donation_id # 0 /\ token # 0 /\ Get(db, donation_id) # 0
    THEN LET result == capture_order(token, net)
         IN IF ~result.error /\ result.status = "COMPLETED"
            THEN Credited(db, donation_id, "success")
            ELSE Reply(db, "danger")
    ELSE Reply(db, "danger")

\* paystack_callback settling whatever verify_transaction reports.
paystack_callback_unverified(db, reference, net) ==
    IF reference # 0
    THEN LET donation == FirstByTransactionId(db, reference)
         IN IF donation # 0 /\ db.Donation[donation].status = "pending"
            THEN Credited(db, donation, "success")
            ELSE Reply(db, "danger")
    ELSE Reply(db, "danger")

\* main.py / app.py paystack_callback
paystack_callback(db, reference, net) ==
    IF reference # 0
    THEN LET result == verify_transaction(reference, net)
             donation == FirstByTransactionId(db, reference)
         IN IF result.status = "success" /\ donation # 0
               /\ db.Donation[donation].status = "pending"
            THEN Credited(db, donation, "success")
            ELSE Reply(db, "danger")
    ELSE Reply(db, "danger")

\* login_required alone: any logged-in user passes.
login_required_only(user) == user # "anonymous"

\* admin.py admin_required (behind login_required)
admin_required(user) == user = "admin"

\* confirm_donation without its check of the status.
confirm_donation_unguarded(db, user, id) ==
    IF ~admin_required(user) THEN Reply(db, "denied")
    ELSE IF Get(db, id) = 0 THEN Reply(db, "404")
    ELSE Credited(db, id, "success")

\* admin.py confirm_donation
confirm_donation(db, user, id) ==
    IF ~admin_required(user) THEN Reply(db, "denied")
    ELSE IF Get(db, id) = 0 THEN Reply(db, "404")
    ELSE IF db.Donation[id].status \in {"pending", "awaiting_verification"}
    THEN Credited(db, id, "success")
    ELSE Reply(db, "warning")

\* reject_donation without its check of the status.
reject_donation_unguarded(db, user, id) ==
    IF ~admin_required(user) THEN Reply(db, "denied")
    ELSE IF Get(db, id) = 0 THEN Reply(db, "404")
    ELSE Reply(SetStatus(db, id, "rejected"), "info")

\* admin.py reject_donation
reject_donation(db, user, id) ==
    IF ~admin_required(user) THEN Reply(db, "denied")
    ELSE IF Get(db, id) = 0 THEN Reply(db, "404")
    ELSE IF db.Donation[id].status # "completed"
    THEN Reply(SetStatus(db, id, "rejected"), "info")
    ELSE Reply(db, "warning")

\* admin.py update_raised_amount; new_amount < 0 stands for any rejected input.
update_raised_amount(db, user, id, new_amount) ==
    IF ~admin_required(user) THEN Reply(db, "denied")
    ELSE IF id \notin CampaignIds THEN Reply(db, "404")
    ELSE IF new_amount < 0 THEN Reply(db, "danger")
    ELSE Reply([db EXCEPT !.Campaign[id].raised_amount = new_amount], "success")

\* -------------------------------------------------------------- webhooks
\* A webhook body, as the JSON it parses to. "missing" stands for a payload
\* without the key the handler indexes.
PaystackBodies ==
    {[provider |-> "paystack", event |-> e, reference |-> r, donation_id |-> 0] :
        e \in {"charge.success", "charge.failed"}, r \in DonationIds}
    \cup {[provider |-> "paystack", event |-> "missing", reference |-> 0, donation_id |-> 0]}

\* Coinbase: event['type'], event['data']['id'], event['data']['metadata']['donation_id']
\* (0: no donation_id in the metadata).
CoinbaseBodies ==
    {[provider |-> "coinbase", event |-> e, reference |-> r, donation_id |-> d] :
        e \in {"charge:confirmed", "charge:failed"}, r \in DonationIds,
        d \in DonationIds \cup {0}}
    \cup {[provider |-> "coinbase", event |-> "missing", reference |-> 0, donation_id |-> 0]}

\* The configured secret of a provider, or "unset" (the config value None).
Secrets == {"unset", "secret"}

\* hmac.new(key, body, digest).hexdigest(): the digest as the triple it is a
\* function of (no collisions).
Hmac(digest, key, body) == [digest |-> digest, key |-> key, body |-> body]

\* request.headers.get(...) when the header is absent.
NoSignature ==
    [digest |-> "none", key |-> "none",
     body |-> [provider |-> "none", event |-> "none", reference |-> 0, donation_id |-> 0]]

\* The signature headers a sender may attach to body: none, the provider's, one
\* made with another key, one made over another body, one of the other digest.
OtherBody(body) == [body EXCEPT !.event = "tampered"]
OtherDigest(digest) == IF digest = "sha512" THEN "sha256" ELSE "sha512"
SignatureHeaders(digest, body) ==
    {NoSignature, Hmac(digest, "secret", body), Hmac(digest, "guess", body),
     Hmac(digest, "secret", OtherBody(body)), Hmac(OtherDigest(digest), "secret", body)}

\* What a verify_webhook call does: returns a boolean or raises.
Returns(b) == [raises |-> FALSE, value |-> b]
Raises == [raises |-> TRUE, value |-> FALSE]

\* PaystackPayment.verify_webhook: None.encode raises; hash_signature == signature
PaystackVerifyWebhook(secret_key, signature, body) ==
    IF secret_key = "unset" THEN Raises
    ELSE Returns(Hmac("sha512", secret_key, body) = signature)

\* CoinbaseCommercePayment.verify_webhook: None.encode raises; compare_digest
\* raises TypeError on a None signature.
CoinbaseVerifyWebhook(webhook_secret, signature, body) ==
    IF webhook_secret = "unset" THEN Raises
    ELSE IF signature = NoSignature THEN Raises
    ELSE Returns(Hmac("sha256", webhook_secret, body) = signature)

\* PayPalPayment.verify_webhook
PayPalVerifyWebhook(headers, body) == Returns(TRUE)

\* paystack_webhook without its check that the donation is pending.
paystack_webhook_unguarded(db, secret_key, signature, body) ==
    LET verified == PaystackVerifyWebhook(secret_key, signature, body)
    IN IF verified.raises THEN Reply(db, "500")
       ELSE IF ~verified.value THEN Reply(db, "400")
       ELSE IF body.event = "missing" THEN Reply(db, "500")
       ELSE IF body.event = "charge.success"
       THEN LET donation == FirstByTransactionId(db, body.reference)
            IN IF donation # 0 THEN Credited(db, donation, "200") ELSE Reply(db, "200")
       ELSE Reply(db, "200")

\* main.py / app.py paystack_webhook. An exception in the handler is Flask's 500.
paystack_webhook(db, secret_key, signature, body) ==
    LET verified == PaystackVerifyWebhook(secret_key, signature, body)
    IN IF verified.raises THEN Reply(db, "500")
       ELSE IF ~verified.value THEN Reply(db, "400")
       ELSE IF body.event = "missing" THEN Reply(db, "500")
       ELSE IF body.event = "charge.success"
       THEN LET donation == FirstByTransactionId(db, body.reference)
            IN IF donation # 0 /\ db.Donation[donation].status = "pending"
               THEN Credited(db, donation, "200")
               ELSE Reply(db, "200")
       ELSE Reply(db, "200")

\* app.py coinbase_webhook
coinbase_webhook(db, webhook_secret, signature, body) ==
    LET verified == CoinbaseVerifyWebhook(webhook_secret, signature, body)
    IN IF verified.raises THEN Reply(db, "500")
       ELSE IF ~verified.value THEN Reply(db, "400")
       ELSE IF body.event = "missing" THEN Reply(db, "500")
       ELSE IF body.event = "charge:confirmed"
       THEN LET donation == Get(db, body.donation_id)
            IN IF body.donation_id # 0 /\ donation # 0
                  /\ db.Donation[donation].status = "pending"
               THEN Credited(db, donation, "200")
               ELSE Reply(db, "200")
       ELSE Reply(db, "200")

\* ---------------------------------------------------------------- donate
\* The provider's answer to the initiation call (create_order,
\* initialize_transaction, create_charge).
InitiateNet == {"ok", "failed", "no_link"}

\* What the provider does with an outbound call: no answer, a refusal of the
\* credentials (an HTTP error status), a body without the keys the adapter
\* indexes, a well-formed refusal, an order without an approval link, success.
ProviderNet == {"timeout", "auth_failed", "malformed", "declined", "no_link", "ok"}
Unreached == {"timeout", "auth_failed", "malformed"}

\* An adapter's return value: {'error': ...} or the link to send the donor to.
Failure == [raises |-> FALSE, error |-> TRUE, link |-> FALSE]
Initiated(link) == [raises |-> FALSE, error |-> FALSE, link |-> link]

\* PayPalPayment.get_access_token: the token, or None on any exception.
get_access_token(net) == net \notin Unreached

\* PayPalPayment.create_order: approval_url stays None when no link has rel
\* 'approve', and the dict carries no 'error' key.
create_order(token_net, net) ==
    IF ~get_access_token(token_net) THEN Failure
    ELSE IF net \in Unreached \cup {"declined"} THEN Failure
    ELSE Initiated(net = "ok")

\* The amount handed to initialize_transaction is the form's float, written
\* here in thousandths of the currency unit (1005 is 1.005); rate is the
\* exchange rate in the system configuration, 0 when none is set.
MilliAmounts == 1000..(1000 + MaxMilli)
Rates == 0..MaxRate
Unsent == 0 - 1
NoPayload == [amount |-> 0, rate |-> 0, amount_kobo |-> Unsent]

\* PaystackPayment.initialize_transaction: amount_kobo = int(amount * 100).
\* int() drops the fraction; no exchange rate is read.
amount_kobo(amount, rate) == (amount * 100) \div 1000

\* PaystackPayment.initialize_transaction: data['status'] false is an error,
\* a missing authorization_url a KeyError that is caught.
initialize_transaction(net) == IF net = "ok" THEN Initiated(TRUE) ELSE Failure

\* CoinbaseCommercePayment.create_charge
create_charge(net) == IF net = "ok" THEN Initiated(TRUE) ELSE Failure

\* What donate makes of the adapter's return value: the test it applies is
\* that the key ('approval_url', 'authorization_url', 'hosted_url') is there.
InitiateOutcome(type, token_net, net) ==
    LET result == CASE type = "paypal" -> create_order(token_net, net)
                    [] type = "paystack" -> initialize_transaction(net)
                    [] OTHER -> create_charge(net)
    IN IF result.error THEN "failed" ELSE IF result.link THEN "ok" ELSE "no_link"

\* app.py donate, for a submitted form [donor_ok, amount, payment_method]:
\* validate_on_submit, the insert, then the adapter's initiation. The provider's
\* reference is unique to the donation: the row's id stands for it.
NextId(db) == Cardinality({d \in DonationIds : db.Donation[d].status # "absent"}) + 1

\* The rows of the PaymentMethod table.
MethodRows(db) == DOMAIN db.PaymentMethod

ActiveTypes(db) ==
    {db.PaymentMethod[m].type : m \in {i \in MethodRows(db) : db.PaymentMethod[i].active}}

FormValid(db, form) ==
    /\ form.donor_ok
    /\ form.amount >= 1
    /\ form.payment_method \in ActiveTypes(db)

donate(db, campaign_id, form, net) ==
    IF campaign_id \notin CampaignIds THEN Reply(db, "404")
    ELSE IF ~FormValid(db, form) THEN Reply(db, "invalid")
    ELSE LET id == NextId(db)
             row == [campaign_id |-> campaign_id, amount |-> form.amount,
                     payment_method |-> form.payment_method,
                     transaction_id |-> 0, status |-> "pending"]
             inserted == [db EXCEPT !.Donation[id] = row]
         IN IF form.payment_method = "bank" THEN Reply(inserted, "instructions")
            ELSE IF net = "ok"
            THEN Reply([inserted EXCEPT !.Donation[id].transaction_id = id], "redirect")
            ELSE IF net = "no_link" /\ form.payment_method = "paypal"
            THEN Reply([inserted EXCEPT !.Donation[id].transaction_id = id], "redirect_none")
            ELSE Reply(inserted, "danger")

Forms == [donor_ok : BOOLEAN, amount : 0..MaxAmount, payment_method : MethodTypes \cup {"none"}]

\* main.py donate reads the raw form: amount is the submitted text (a number,
\* other text, the text "nan", or no field), payment_method a PaymentMethod id
\* (0: no field; an id above MethodIds: no such row).
AmountInputs ==
    [kind : {"number"}, value : (0 - 1)..MaxAmount]
    \cup [kind : {"text", "nan", "missing"}, value : {0}]
MainForms == [donor_ok : BOOLEAN, amount : AmountInputs, payment_method : 0..5]

\* float('nan'), kept apart from every amount.
NaN == 0 - 2

\* float(request.form.get('amount', 0)), 0.0 when float() raises.
ParseFloat(x) ==
    CASE x.kind = "number" -> x.value
      [] x.kind = "nan" -> NaN
      [] OTHER -> 0

\* amount <= 0 on floats: false whenever amount is NaN.
LeqZero(amount) == amount # NaN /\ amount <= 0

\* main.py donate. nan_storable: the database keeps a NaN in the NOT NULL
\* amount column (PostgreSQL) or refuses the insert (SQLite binds NaN as NULL).
\* get_payment_processor takes one argument in payments.py: the two-argument
\* call raises TypeError after the row is committed.
main_donate(db, id, form, nan_storable) ==
    IF id \notin CampaignIds THEN Reply(db, "404")
    ELSE IF form.payment_method = 0 THEN Reply(db, "danger")
    ELSE IF form.payment_method \notin MethodRows(db) THEN Reply(db, "404")
    ELSE IF LeqZero(ParseFloat(form.amount)) THEN Reply(db, "danger")
    ELSE IF ~form.donor_ok THEN Reply(db, "danger")
    ELSE IF ParseFloat(form.amount) = NaN /\ ~nan_storable THEN Reply(db, "500")
    ELSE LET type == db.PaymentMethod[form.payment_method].type
             row == [campaign_id |-> id, amount |-> ParseFloat(form.amount),
                     payment_method |-> type,
                     transaction_id |-> 0, status |-> "pending"]
             inserted == [db EXCEPT !.Donation[NextId(db)] = row]
         IN IF type \in {"bank", "crypto"} THEN Reply(inserted, "instructions")
            ELSE Reply(inserted, "500")

\* admin.py toggle_payment_method
toggle_payment_method(db, user, id) ==
    IF ~admin_required(user) THEN Reply(db, "denied")
    ELSE IF id \notin MethodRows(db) THEN Reply(db, "404")
    ELSE Reply([db EXCEPT !.PaymentMethod[id].active = ~@], "success")

\* The PaymentMethodForm as submitted: whether the name is given, the type, and
\* which of the type's configuration fields are filled in.
RequiredFields(type) ==
    CASE type = "crypto" -> {"crypto_wallet_address", "crypto_currency"}
      [] type = "bank" -> {"bank_name", "account_name", "account_number"}
      [] type = "paypal" -> {"paypal_client_id", "paypal_secret"}
      [] type = "paystack" -> {"paystack_secret_key", "paystack_public_key"}
      [] OTHER -> {}

MethodForms ==
    UNION {[name_ok : BOOLEAN, type : {t}, filled : SUBSET RequiredFields(t)] :
              t \in MethodTypes \cup {"other"}}

\* security_utils.py SecurityManager.validate_payment_data: one error for each
\* required field of the type that is empty.
validate_payment_data(payment_data) == RequiredFields(payment_data.type) \ payment_data.filled

\* forms.py PaymentMethodForm.validate_on_submit: name and type are
\* DataRequired, type one of the choices; every other field is Optional.
PaymentMethodFormValid(form) == form.name_ok /\ form.type \in MethodTypes

\* admin.py payment_methods (POST): the new row gets the next id and is active.
payment_methods(db, user, form) ==
    IF ~admin_required(user) THEN Reply(db, "denied")
    ELSE IF ~PaymentMethodFormValid(form) THEN Reply(db, "invalid")
    ELSE LET id == Cardinality(MethodRows(db)) + 1
         IN Reply([db EXCEPT !.PaymentMethod =
                       [m \in MethodRows(db) \cup {id} |->
                           IF m = id THEN [type |-> form.type, active |-> TRUE]
                           ELSE db.PaymentMethod[m]]], "success")

\* ----------------------------------------------------- concurrent workers
\* Two request handlers (threads or processes) on one database. Each settles in
\* three steps of its own ORM session: the query that loads the donation and
\* the status test on the loaded object; the lazy load of donation.campaign,
\* which reads raised_amount; the commit, which writes status 'completed' and
\* the raised_amount computed in memory.
Workers == {"w1", "w2"}
Idle == [pc |-> "idle", trigger |-> "none", donation |-> 0, raised_seen |-> 0]

\* The status test each guarded trigger makes on the row it loaded.
Guard(trigger, status) ==
    IF trigger = "confirm_donation"
    THEN status \in {"pending", "awaiting_verification"}
    ELSE status = "pending"

GuardedTriggers == {"paystack_webhook", "paystack_callback", "coinbase_webhook",
                    "confirm_donation"}

\* The row the trigger resolves to, when the request names donation d: the
\* Paystack triggers look it up by its stored reference.
Resolve(db, trigger, d) ==
    IF trigger \in {"paystack_webhook", "paystack_callback"}
    THEN IF db.Donation[d].transaction_id = 0 THEN 0
         ELSE FirstByTransactionId(db, db.Donation[d].transaction_id)
    ELSE Get(db, d)

\* ------------------------------------------------- a webhook, step by step
\* No webhook request in hand.
NoHook == [pc |-> "idle", provider |-> "none", secret |-> "unset",
           signature |-> NoSignature, body |-> NoSignature.body,
           event |-> "unparsed", code |-> "none"]

\* processor.verify_webhook(signature, body) of the endpoint's provider.
HookVerify(h) ==
    IF h.provider = "paystack"
    THEN PaystackVerifyWebhook(h.secret, h.signature, h.body)
    ELSE CoinbaseVerifyWebhook(h.secret, h.signature, h.body)

\* The endpoint as a whole, for the request in hand.
HookHandler(db, h) ==
    IF h.provider = "paystack"
    THEN paystack_webhook(db, h.secret, h.signature, h.body)
    ELSE coinbase_webhook(db, h.secret, h.signature, h.body)

\* ------------------------------------------------------------- self-ping
\* os.getenv('ENABLE_SELF_PING', 'true'): "unset" is the variable not set.
EnableValues == {"unset", "true", "True", "TRUE", "1", "yes", "on", "false", "0", "off"}

\* str.lower() on the values above.
Lower(str) == IF str \in {"True", "TRUE"} THEN "true" ELSE str

\* os.getenv('ENABLE_SELF_PING', 'true').lower() in ['1', 'true', 'yes', 'on']
SelfPingEnabled(enable) ==
    Lower(IF enable = "unset" THEN "true" ELSE enable) \in {"1", "true", "yes", "on"}

\* The module's globals and process: KEEPALIVE_STARTED, the threads running
\* ping_loop, the requests sent to /health, and how often the start-up block ran.
NoKeepalive == [enable |-> "unset", debug |-> FALSE, reloader |-> FALSE,
                KEEPALIVE_STARTED |-> FALSE, loops |-> 0, pings |-> 0, calls |-> 0]

\* main.py start_self_ping: the flag is tested and set, ping_loop is defined,
\* and the function returns. No thread is created for ping_loop, here or
\* anywhere in the repository, so loops and pings stay as they are.
start_self_ping(k) ==
    IF k.KEEPALIVE_STARTED THEN k
    ELSE [k EXCEPT !.KEEPALIVE_STARTED = TRUE]

\* ---------------------------------------------------------------- actions
InBounds(db) == \A c \in CampaignIds : db.Campaign[c].raised_amount <= MaxRaised

\* One request served as a whole. mode "log" keeps the last request, mode
\* "count" keeps the count of credits.
Serve(mode, op, id, r) ==
    /\ InBounds(r.db)
    /\ Donation' = r.db.Donation
    /\ Campaign' = r.db.Campaign
    /\ PaymentMethod' = r.db.PaymentMethod
    /\ last' = IF mode = "log"
               THEN [op |-> op, id |-> id, code |-> r.code, settled |-> r.settled]
               ELSE last
    /\ session' = session
    /\ hook' = hook
    /\ payload' = payload
    /\ keepalive' = keepalive
    /\ IF mode = "count" /\ r.settled # 0
       THEN /\ credits[r.settled] < MaxCredits
            /\ credits' = [credits EXCEPT ![r.settled] = @ + 1]
       ELSE credits' = credits

\* The tables as created, the registry configured, no request under way.
Fresh ==
    /\ Donation = [d \in DonationIds |-> NoRow]
    /\ Campaign = [c \in CampaignIds |-> [raised_amount |-> 0]]
    /\ PaymentMethod = Registry
    /\ last = [op |-> "none", id |-> 0, code |-> "none", settled |-> 0]
    /\ credits = [d \in DonationIds |-> 0]
    /\ session = [w \in Workers |-> Idle]
    /\ hook = NoHook

Init == Fresh /\ payload = NoPayload /\ keepalive = NoKeepalive

\* The webhook deliveries the model sends: every body with the provider's
\* signature, and one body with each other header and with the secret unset.
Deliveries(digest, bodies, probe) ==
    {[secret |-> "secret", signature |-> Hmac(digest, "secret", b), body |-> b] : b \in bodies}
    \cup {[secret |-> "secret", signature |-> sig, body |-> probe] :
             sig \in SignatureHeaders(digest, probe)}
    \cup {[secret |-> "unset", signature |-> sig, body |-> probe] :
             sig \in {NoSignature, Hmac(digest, "secret", probe)}}

PaystackProbe == [provider |-> "paystack", event |-> "charge.success",
                  reference |-> 1, donation_id |-> 0]
CoinbaseProbe == [provider |-> "coinbase", event |-> "charge:confirmed",
                  reference |-> 1, donation_id |-> 1]

\* In each action below the requests that get the same answer and leave the
\* same tables are one step: the step is taken for each outcome x.
Donate(mode) ==
    /\ NextId(DB) \in DonationIds
    /\ \E x \in {[id |-> NextId(DB), r |-> donate(DB, c, form, net)] :
                   c \in CampaignIds \cup {2}, form \in Forms, net \in InitiateNet} :
          Serve(mode, "donate", x.id, x.r)

ConfirmManualPayment(mode) ==
    \E id \in DonationIds :
        Serve(mode, "confirm_manual_payment", id, confirm_manual_payment(DB, id))

DonationCancel(mode) ==
    \E id \in DonationIds : Serve(mode, "donation_cancel", id, donation_cancel(DB, id))

\* The tokens a return from PayPal carries: 0 is a request without one.
PaypalReturns ==
    {[donation_id |-> id, token |-> 1, net |-> net] :
        id \in DonationIds \cup {0}, net \in CaptureNet}
    \cup {[donation_id |-> id, token |-> 0, net |-> "COMPLETED"] : id \in DonationIds}

PaypalSuccess(mode) ==
    \E x \in {[id |-> q.donation_id,
                r |-> paypal_success(DB, q.donation_id, q.token, q.net)] :
                  q \in PaypalReturns} :
        Serve(mode, "paypal_success", x.id, x.r)

PaystackCallback(mode) ==
    \E x \in {[id |-> reference, r |-> paystack_callback(DB, reference, net)] :
                  reference \in DonationIds \cup {0}, net \in VerifyNet} :
        Serve(mode, "paystack_callback", x.id, x.r)

PaystackWebhook(mode) ==
    \E x \in {[id |-> w.body.reference,
                r |-> paystack_webhook(DB, w.secret, w.signature, w.body)] :
                  w \in Deliveries("sha512", PaystackBodies, PaystackProbe)} :
        Serve(mode, "paystack_webhook", x.id, x.r)

CoinbaseWebhook(mode) ==
    \E x \in {[id |-> w.body.donation_id,
                r |-> coinbase_webhook(DB, w.secret, w.signature, w.body)] :
                  w \in Deliveries("sha256", CoinbaseBodies, CoinbaseProbe)} :
        Serve(mode, "coinbase_webhook", x.id, x.r)

ConfirmDonation(mode) ==
    \E x \in {[id |-> id, r |-> confirm_donation(DB, user, id)] :
                  user \in Users, id \in DonationIds} :
        Serve(mode, "confirm_donation", x.id, x.r)

RejectDonation(mode) ==
    \E x \in {[id |-> id, r |-> reject_donation(DB, user, id)] :
                  user \in Users, id \in DonationIds} :
        Serve(mode, "reject_donation", x.id, x.r)

\* The admin's edits of a campaign total, and one by each other caller.
RaisedEdits ==
    {[user |-> "admin", id |-> c, new_amount |-> n] :
        c \in CampaignIds \cup {2}, n \in -1..MaxRaised}
    \cup {[user |-> u, id |-> 1, new_amount |-> 0] : u \in Users \ {"admin"}}

UpdateRaisedAmount(mode) ==
    \E x \in {[id |-> q.id,
                r |-> update_raised_amount(DB, q.user, q.id, q.new_amount)] :
                  q \in RaisedEdits} :
        Serve(mode, "update_raised_amount", x.id, x.r)

Next ==
    \/ Donate("log")
    \/ ConfirmManualPayment("log")
    \/ DonationCancel("log")
    \/ PaypalSuccess("log")
    \/ PaystackCallback("log")
    \/ PaystackWebhook("log")
    \/ CoinbaseWebhook("log")
    \/ ConfirmDonation("log")
    \/ RejectDonation("log")
    \/ UpdateRaisedAmount("log")

Spec == Init /\ [][Next]_vars

\* The same requests, with the credits of each donation counted.
NextCredit ==
    \/ Donate("count")
    \/ ConfirmManualPayment("count")
    \/ DonationCancel("count")
    \/ PaypalSuccess("count")
    \/ PaystackCallback("count")
    \/ PaystackWebhook("count")
    \/ CoinbaseWebhook("count")
    \/ ConfirmDonation("count")
    \/ RejectDonation("count")
    \/ UpdateRaisedAmount("count")

SpecCredit == Init /\ [][NextCredit]_vars

\* Guarded settlement triggers served by two workers at once. No other request
\* runs here: serving each trigger as a whole, a donation is credited once.
Query(w) ==
    \E trigger \in GuardedTriggers, d \in DonationIds :
        /\ session[w].pc \in {"idle", "crashed"}
        /\ Resolve(DB, trigger, d) # 0
        /\ Guard(trigger, Donation[Resolve(DB, trigger, d)].status)
        /\ session' = [session EXCEPT ![w] =
               [pc |-> "checked", trigger |-> trigger,
                donation |-> Resolve(DB, trigger, d), raised_seen |-> 0]]
        /\ UNCHANGED <<Donation, Campaign, PaymentMethod, last, credits, hook, payload, keepalive>>

LoadCampaign(w) ==
    /\ session[w].pc = "checked"
    /\ session' = [session EXCEPT ![w].pc = "loaded",
                                  ![w].raised_seen =
                       Campaign[Donation[session[w].donation].campaign_id].raised_amount]
    /\ UNCHANGED <<Donation, Campaign, PaymentMethod, last, credits, hook, payload, keepalive>>

\* A commit that flushes the status and not the campaign's total.
CommitStatusOnly(w) ==
    /\ session[w].pc = "loaded"
    /\ Donation' = [Donation EXCEPT ![session[w].donation].status = "completed"]
    /\ session' = [session EXCEPT ![w] = Idle]
    /\ UNCHANGED <<Campaign, PaymentMethod, last, credits, hook, payload, keepalive>>

\* db.session.commit(): the status and the total assigned in the session are
\* written in one transaction.
CommitSettle(w) ==
    LET d == session[w].donation
        c == Donation[d].campaign_id
    IN /\ session[w].pc = "loaded"
       /\ session[w].raised_seen + Donation[d].amount <= MaxRaised
       /\ Donation' = [Donation EXCEPT ![d].status = "completed"]
       /\ Campaign' = [Campaign EXCEPT ![c].raised_amount =
                           session[w].raised_seen + Donation[d].amount]
       /\ session' = [session EXCEPT ![w] = Idle]
       /\ UNCHANGED <<PaymentMethod, last, credits, hook, payload, keepalive>>

NextConc ==
    \/ Donate("none")
    \/ \E w \in Workers : Query(w)
    \/ \E w \in Workers : LoadCampaign(w)
    \/ \E w \in Workers : CommitSettle(w)

SpecConc == Init /\ [][NextConc]_vars

\* Donation intake while the admin switches payment methods on and off.
MainDonate(mode) ==
    \E c \in CampaignIds \cup {2}, form \in MainForms, nan_storable \in BOOLEAN :
        /\ NextId(DB) \in DonationIds
        /\ Serve(mode, "main_donate", NextId(DB), main_donate(DB, c, form, nan_storable))

TogglePaymentMethod(mode) ==
    \E user \in Users, id \in MethodIds \cup {5} :
        Serve(mode, "toggle_payment_method", id, toggle_payment_method(DB, user, id))

NextIntake ==
    \/ Donate("log")
    \/ MainDonate("log")
    \/ TogglePaymentMethod("log")

SpecIntake == Init /\ [][NextIntake]_vars

\* A webhook endpoint in its steps: signature = request.headers.get(...) and
\* body = request.data; processor.verify_webhook(signature, body); event =
\* request.json; the test of the event type, the lookup and the settlement;
\* the response.
ReceiveWebhook ==
    /\ hook.pc = "idle"
    /\ \E provider \in {"paystack", "coinbase"} :
       \E w \in IF provider = "paystack"
                THEN Deliveries("sha512", PaystackBodies, PaystackProbe)
                ELSE Deliveries("sha256", CoinbaseBodies, CoinbaseProbe) :
          hook' = [NoHook EXCEPT !.pc = "received", !.provider = provider,
                                 !.secret = w.secret, !.signature = w.signature,
                                 !.body = w.body]
    /\ UNCHANGED <<Donation, Campaign, PaymentMethod, last, credits, session, payload, keepalive>>

\* The handler reading request.json before it verifies the signature.
ParseUnverified ==
    /\ hook.pc \in {"received", "verified"}
    /\ hook' = [hook EXCEPT !.event = hook.body.event,
                            !.pc = IF hook.pc = "verified" THEN "parsed" ELSE "received"]
    /\ UNCHANGED <<Donation, Campaign, PaymentMethod, last, credits, session, payload, keepalive>>

\* if processor.verify_webhook(signature, body): an exception ends the request
\* with Flask's 500, False with the 400 of the last line.
VerifyWebhook ==
    /\ hook.pc = "received"
    /\ hook' = [hook EXCEPT !.pc = IF HookVerify(hook).raises THEN "answered"
                                   ELSE IF HookVerify(hook).value THEN "verified"
                                   ELSE "answered",
                            !.code = IF HookVerify(hook).raises THEN "500"
                                     ELSE IF HookVerify(hook).value THEN "none"
                                     ELSE "400"]
    /\ UNCHANGED <<Donation, Campaign, PaymentMethod, last, credits, session, payload, keepalive>>

\* event = request.json
ParseEvent ==
    /\ hook.pc = "verified"
    /\ hook' = [hook EXCEPT !.pc = "parsed", !.event = hook.body.event]
    /\ UNCHANGED <<Donation, Campaign, PaymentMethod, last, credits, session, payload, keepalive>>

\* The rest of the handler, on the parsed event.
ActOnEvent ==
    LET r == HookHandler(DB, hook)
    IN /\ hook.pc = "parsed"
       /\ InBounds(r.db)
       /\ Donation' = r.db.Donation
       /\ Campaign' = r.db.Campaign
       /\ hook' = [hook EXCEPT !.pc = "answered", !.code = r.code]
       /\ UNCHANGED <<PaymentMethod, last, credits, session, payload, keepalive>>

\* The response is sent and the request is over.
Respond ==
    /\ hook.pc = "answered"
    /\ hook' = NoHook
    /\ UNCHANGED <<Donation, Campaign, PaymentMethod, last, credits, session, payload, keepalive>>

NextHook ==
    \/ Donate("none")
    \/ ReceiveWebhook
    \/ VerifyWebhook
    \/ ParseEvent
    \/ ActOnEvent
    \/ Respond

SpecHook == Init /\ [][NextHook]_vars

\* The initialize request as PaystackPayment.initialize_transaction builds it,
\* for each amount a donor may submit and each configured rate.
InitPaystack ==
    /\ Fresh
    /\ payload \in [amount : MilliAmounts, rate : Rates, amount_kobo : {Unsent}]
    /\ keepalive = NoKeepalive

InitializeTransaction ==
    /\ payload.amount_kobo = Unsent
    /\ payload' = [payload EXCEPT !.amount_kobo = amount_kobo(payload.amount, payload.rate)]
    /\ UNCHANGED <<Donation, Campaign, PaymentMethod, last, credits, session, hook, keepalive>>

NextPaystack == InitializeTransaction

SpecPaystack == InitPaystack /\ [][NextPaystack]_vars

\* main.py's start-up block, run each time the module is loaded or the block
\* is reached again in one process.
InitKeepalive ==
    /\ Fresh
    /\ payload = NoPayload
    /\ keepalive \in [enable : EnableValues, debug : BOOLEAN, reloader : BOOLEAN,
                       KEEPALIVE_STARTED : {FALSE}, loops : {0}, pings : {0}, calls : {0}]

StartUp ==
    /\ keepalive.calls < MaxCalls
    /\ keepalive' =
          [(IF SelfPingEnabled(keepalive.enable)
               /\ (~keepalive.debug \/ keepalive.reloader)
            THEN start_self_ping(keepalive) ELSE keepalive)
           EXCEPT !.calls = @ + 1]
    /\ UNCHANGED <<Donation, Campaign, PaymentMethod, last, credits, session, hook, payload>>

NextKeepalive == StartUp

SpecKeepalive == InitKeepalive /\ [][NextKeepalive]_vars /\ WF_vars(NextKeepalive)

\* The admin's management of the payment method registry.
PaymentMethods(mode) ==
    \E user \in Users, form \in MethodForms :
        /\ Cardinality(MethodRows(DB)) < MaxMethods
        /\ Serve(mode, "payment_methods", Cardinality(MethodRows(DB)) + 1,
                 payment_methods(DB, user, form))

ToggleAnyPaymentMethod(mode) ==
    \E user \in Users, id \in 1..MaxMethods :
        Serve(mode, "toggle_payment_method", id, toggle_payment_method(DB, user, id))

NextRegistry ==
    \/ PaymentMethods("log")
    \/ ToggleAnyPaymentMethod("log")

SpecRegistry == Init /\ [][NextRegistry]_vars

\* One guarded trigger at a time, which may die on the way. Until the commit,
\* donation.status = 'completed' (after the status check) and raised_amount +=
\* amount (after the campaign is loaded) are assignments in the handler's
\* session; an exception, a killed worker or a failed commit rolls them back.
QuerySolo(w) ==
    /\ \A v \in Workers \ {w} : session[v].pc \in {"idle", "crashed"}
    /\ Query(w)

Crash(w) ==
    /\ session[w].pc \in {"checked", "loaded"}
    /\ session' = [session EXCEPT ![w].pc = "crashed", ![w].raised_seen = 0]
    /\ UNCHANGED <<Donation, Campaign, PaymentMethod, last, credits, hook, payload, keepalive>>

NextTxn ==
    \/ Donate("none")
    \/ \E w \in Workers : QuerySolo(w)
    \/ \E w \in Workers : LoadCampaign(w)
    \/ \E w \in Workers : CommitSettle(w)
    \/ \E w \in Workers : Crash(w)

SpecTxn == Init /\ [][NextTxn]_vars

\* ------------------------------------------------------------------ claims
Terminal == {"completed", "rejected", "cancelled", "failed"}
Rows == {d \in DonationIds : Donation[d].status # "absent"}
Tables(db) == <<db.Donation, db.Campaign>>

RECURSIVE SumAmounts(_)
SumAmounts(S) ==
    IF S = {} THEN 0
    ELSE LET d == CHOOSE e \in S : TRUE IN Donation[d].amount + SumAmounts(S \ {d})

SumCompleted(c) ==
    SumAmounts({d \in Rows : Donation[d].campaign_id = c /\ Donation[d].status = "completed"})

\* A provider's signed success event for donation d, and the verified successful
\* outcome of a redirect callback.
PaystackSuccess(db, d) ==
    [provider |-> "paystack", event |-> "charge.success",
     reference |-> db.Donation[d].transaction_id, donation_id |-> 0]
CoinbaseConfirmed(db, d) ==
    [provider |-> "coinbase", event |-> "charge:confirmed",
     reference |-> db.Donation[d].transaction_id, donation_id |-> d]
VerifiedOk == [http |-> "ok", status |-> TRUE, data_status |-> "success"]

SettlementTriggers == {"paypal_success", "paystack_callback", "paystack_webhook",
                       "coinbase_webhook", "confirm_donation"}

\* The settlement trigger op fired for donation d with a successful outcome.
Trigger(db, op, d) ==
    CASE op = "paypal_success" -> paypal_success(db, d, 1, "COMPLETED")
      [] op = "paystack_callback" ->
            paystack_callback(db, db.Donation[d].transaction_id, VerifiedOk)
      [] op = "paystack_webhook" ->
            paystack_webhook(db, "secret", Hmac("sha512", "secret", PaystackSuccess(db, d)),
                             PaystackSuccess(db, d))
      [] op = "coinbase_webhook" ->
            coinbase_webhook(db, "secret", Hmac("sha256", "secret", CoinbaseConfirmed(db, d)),
                             CoinbaseConfirmed(db, d))
      [] OTHER -> confirm_donation(db, "admin", d)

\* C1: over any sequence of settlement triggers, donor actions and admin
\* rejections, a donation's amount is credited to its campaign at most once.
C1_CreditedAtMostOnce == \A d \in DonationIds : credits[d] <= 1

\* C2: when two workers serve guarded settlement triggers at once, a campaign's
\* total never exceeds the amounts of its completed donations: no donation is
\* credited twice.
C2_NoDoubleCreditUnderRace ==
    \A c \in CampaignIds : Campaign[c].raised_amount <= SumCompleted(c)

\* C3: a campaign's raised_amount changes only in a step in which one of its
\* donations becomes 'completed', and then by exactly that donation's amount.
C3_RaisedChangesOnlyOnCompletion ==
    [][\A c \in CampaignIds :
          Campaign'[c].raised_amount # Campaign[c].raised_amount =>
              \E d \in DonationIds :
                  /\ Donation[d].campaign_id = c
                  /\ Donation[d].status # "completed"
                  /\ Donation'[d].status = "completed"
                  /\ Campaign'[c].raised_amount =
                         Campaign[c].raised_amount + Donation[d].amount]_vars

\* C4: a settlement trigger fired twice against a completed donation leaves the
\* statuses and the totals that firing it once leaves.
C4_SettlementIdempotent ==
    \A d \in Rows : \A op \in SettlementTriggers :
        Donation[d].status = "completed" =>
            Tables(Trigger(Trigger(DB, op, d).db, op, d).db) = Tables(Trigger(DB, op, d).db)

\* C5: a correctly signed success webhook for a pending donation, delivered and
\* then delivered again unchanged, leaves the campaign total higher by exactly
\* the donation's amount and the donation 'completed'.
Redelivered(op, d) ==
    LET first == Trigger(DB, op, d)
        second == Trigger(first.db, op, d)
        c == Donation[d].campaign_id
    IN /\ first.code = "200" /\ second.code = "200"
       /\ first.db.Donation[d].status = "completed"
       /\ first.db.Campaign[c].raised_amount = Campaign[c].raised_amount + Donation[d].amount
       /\ second.db.Donation[d].status = "completed"
       /\ second.db.Campaign[c].raised_amount = Campaign[c].raised_amount + Donation[d].amount

C6_BadSignatureRejected ==
    /\ \A body \in PaystackBodies : \A sig \in SignatureHeaders("sha512", body) :
          (sig # NoSignature /\ sig # Hmac("sha512", "secret", body)) =>
              /\ PaystackVerifyWebhook("secret", sig, body) = Returns(FALSE)
              /\ paystack_webhook(DB, "secret", sig, body) = Reply(DB, "400")
    /\ \A body \in CoinbaseBodies : \A sig \in SignatureHeaders("sha256", body) :
          (sig # NoSignature /\ sig # Hmac("sha256", "secret", body)) =>
              /\ CoinbaseVerifyWebhook("secret", sig, body) = Returns(FALSE)
              /\ coinbase_webhook(DB, "secret", sig, body) = Reply(DB, "400")
    /\ \A body \in PaystackBodies :
          PayPalVerifyWebhook(Hmac("sha256", "guess", body), body) = Returns(FALSE)

\* C7: with the secret unset or the signature header absent, each verifier
\* returns false without raising, and the endpoint answers 400 and writes nothing.
C7_VerifierNeverRaises ==
    /\ \A body \in PaystackBodies : \A secret \in Secrets :
       \A sig \in SignatureHeaders("sha512", body) :
          (secret = "unset" \/ sig = NoSignature) =>
              /\ PaystackVerifyWebhook(secret, sig, body) = Returns(FALSE)
              /\ paystack_webhook(DB, secret, sig, body) = Reply(DB, "400")
    /\ \A body \in CoinbaseBodies : \A secret \in Secrets :
       \A sig \in SignatureHeaders("sha256", body) :
          (secret = "unset" \/ sig = NoSignature) =>
              /\ CoinbaseVerifyWebhook(secret, sig, body) = Returns(FALSE)
              /\ coinbase_webhook(DB, secret, sig, body) = Reply(DB, "400")

\* C8: no step changes the status of a donation that is completed, rejected,
\* cancelled or failed.
C8_TerminalIsFinal ==
    [][\A d \in DonationIds :
          Donation[d].status \in Terminal => Donation'[d].status = Donation[d].status]_vars

\* C9: a donation becomes 'completed' only from 'pending' or
\* 'awaiting_verification'.
C9_CompletedOnlyFromOpen ==
    [][\A d \in DonationIds :
          (Donation'[d].status = "completed" /\ Donation[d].status # "completed") =>
              Donation[d].status \in {"pending", "awaiting_verification"}]_vars

\* C10: the admin's confirm_donation on a pending or awaiting_verification
\* donation completes it and credits its campaign by its amount, touching
\* nothing else; a further confirm_donation changes nothing.
C10_ConfirmOnceThenNoOp ==
    \A d \in Rows :
        Donation[d].status \in {"pending", "awaiting_verification"} =>
            LET first == confirm_donation(DB, "admin", d)
                second == confirm_donation(first.db, "admin", d)
            IN /\ first.code = "success"
               /\ first.db = [DB EXCEPT !.Donation[d].status = "completed",
                                        !.Campaign[Donation[d].campaign_id].raised_amount =
                                            @ + Donation[d].amount]
               /\ second.code = "warning"
               /\ second.db = first.db

\* C10 witness: a confirm_donation has been refused with the warning on a
\* donation that is completed.
C10_Witness ==
    /\ last.op = "confirm_donation" /\ last.code = "warning" /\ last.settled = 0
    /\ last.id \in Rows
    /\ Donation[last.id].status = "completed"
    /\ Campaign[Donation[last.id].campaign_id].raised_amount = Donation[last.id].amount

\* C11: the admin's reject_donation rejects a donation that is not completed,
\* and on a completed donation answers the warning and leaves the donation and
\* the campaign as they were.
C11_RejectRefusedOnCompleted ==
    \A d \in Rows :
        LET r == reject_donation(DB, "admin", d)
        IN IF Donation[d].status = "completed"
           THEN r = Reply(DB, "warning")
           ELSE r = Reply([DB EXCEPT !.Donation[d].status = "rejected"], "info")

\* C11 witness: a reject_donation has been refused with the warning, and the
\* donation is still completed and credited.
C11_Witness ==
    /\ last.op = "reject_donation" /\ last.code = "warning" /\ last.id \in Rows
    /\ Donation[last.id].status = "completed"
    /\ Campaign[Donation[last.id].campaign_id].raised_amount >= Donation[last.id].amount

\* C12: a verified successful provider outcome (a signed success webhook, or a
\* redirect callback whose verification succeeded) for a donation that is
\* pending or awaiting_verification completes it and adds exactly its amount
\* to the campaign's raised_amount.
ProviderTriggers(d) ==
    {"paypal_success", "coinbase_webhook"}
    \cup (IF Donation[d].transaction_id # 0
          THEN {"paystack_callback", "paystack_webhook"} ELSE {})

C12_VerifiedOutcomeSettles ==
    \A d \in Rows :
        Donation[d].status \in {"pending", "awaiting_verification"} =>
            \A op \in ProviderTriggers(d) : Trigger(DB, op, d).db = Settle(DB, d)

\* C13: settlement is all-or-nothing. With handlers that may crash or fail to
\* commit at any point, every committed state has a campaign's raised_amount
\* equal to the amounts of its completed donations: no donation is completed
\* without its credit, and no credit is written without the completion.
C13_SettlementAllOrNothing ==
    \A c \in CampaignIds : Campaign[c].raised_amount = SumCompleted(c)

\* C13 witness: a handler died after loading the campaign of a pending donation,
\* which is still pending and uncredited, while another donation is completed
\* and credited.
C13_Witness ==
    \E w \in Workers : \E e \in Rows :
        /\ session[w].pc = "crashed"
        /\ session[w].donation \in Rows
        /\ Donation[session[w].donation].status = "pending"
        /\ Donation[e].status = "completed"
        /\ Campaign[Donation[e].campaign_id].raised_amount = Donation[e].amount

\* C14: a donation request whose amount is not above zero or is not a number,
\* or whose donor name or email is missing, is refused before a Donation row
\* is persisted: the Donation table is unchanged, under both donate handlers.
FormsAnyAmount ==
    [donor_ok : BOOLEAN, amount : (0 - 1)..MaxAmount,
     payment_method : MethodTypes \cup {"none"}]

C14_InvalidDonationNotPersisted ==
    /\ \A c \in CampaignIds : \A form \in FormsAnyAmount : \A net \in InitiateNet :
          (form.amount <= 0 \/ ~form.donor_ok) =>
              donate(DB, c, form, net).db.Donation = Donation
    /\ \A c \in CampaignIds : \A form \in MainForms : \A nan_storable \in BOOLEAN :
          (form.amount.kind # "number" \/ form.amount.value <= 0 \/ ~form.donor_ok) =>
              main_donate(DB, c, form, nan_storable).db.Donation = Donation

\* C15: a donation request naming a payment method that is inactive or does
\* not exist is refused before a Donation row is persisted, and a persisted
\* row carries the type of the active method it was made with.
Usable(db, m) == m \in MethodRows(db) /\ db.PaymentMethod[m].active

C15_InactiveMethodNotPersisted ==
    /\ \A c \in CampaignIds : \A form \in Forms : \A net \in InitiateNet :
          LET r == donate(DB, c, form, net)
          IN IF form.payment_method \in ActiveTypes(DB)
             THEN r.db.Donation # Donation =>
                      r.db.Donation[NextId(DB)].payment_method = form.payment_method
             ELSE r.db.Donation = Donation
    /\ \A c \in CampaignIds : \A form \in MainForms : \A nan_storable \in BOOLEAN :
          LET r == main_donate(DB, c, form, nan_storable)
          IN IF Usable(DB, form.payment_method)
             THEN r.db.Donation # Donation =>
                      r.db.Donation[NextId(DB)].payment_method =
                          PaymentMethod[form.payment_method].type
             ELSE r.db.Donation = Donation

\* C16: when the PayPal adapter's token exchange fails or times out while a
\* donation is initiated, the donation is left pending, the campaign's
\* raised_amount is unchanged and the donor is sent to the manual-instructions
\* view, under both donate handlers.
LeftPendingWithInstructions(r) ==
    /\ r.code = "instructions"
    /\ r.db.Donation[NextId(DB)].status = "pending"
    /\ r.db.Campaign = Campaign

C16_PayPalFailureFallsBackToManual ==
    NextId(DB) \in DonationIds =>
        /\ \A c \in CampaignIds : \A form \in Forms :
              (form.payment_method = "paypal" /\ FormValid(DB, form)) =>
                  LeftPendingWithInstructions(donate(DB, c, form, "failed"))
        /\ \A c \in CampaignIds : \A form \in MainForms : \A nan_storable \in BOOLEAN :
              (/\ form.payment_method \in MethodIds
               /\ PaymentMethod[form.payment_method].type = "paypal"
               /\ form.amount.kind = "number" /\ form.amount.value > 0
               /\ form.donor_ok) =>
                  LeftPendingWithInstructions(main_donate(DB, c, form, nan_storable))

\* C17: when the provider call times out, fails authentication or answers
\* with a malformed response (an order without an approval link included),
\* each initiating adapter returns a structured failure without raising, and
\* app.py donate, given that value, ends without an unhandled error and with
\* the donation pending; capture_order and verify_transaction report failure
\* without raising as well.
ProviderFailures == Unreached \cup {"no_link"}

AdapterResult(type, token_net, net) ==
    CASE type = "paypal" -> create_order(token_net, net)
      [] type = "paystack" -> initialize_transaction(net)
      [] OTHER -> create_charge(net)

C17_AdaptersReturnStructuredFailure ==
    /\ \A type \in {"paypal", "paystack", "crypto"} :
       \A token_net \in Unreached \cup {"ok"} : \A net \in ProviderNet :
          (net \in ProviderFailures \/ (type = "paypal" /\ token_net \in Unreached)) =>
              /\ AdapterResult(type, token_net, net) = Failure
              /\ \A c \in CampaignIds : \A form \in Forms :
                    (/\ form.payment_method = type
                     /\ FormValid(DB, form)
                     /\ NextId(DB) \in DonationIds) =>
                        LET r == donate(DB, c, form, InitiateOutcome(type, token_net, net))
                        IN /\ r.code = "danger"
                           /\ r.db.Donation[NextId(DB)].status = "pending"
                           /\ r.db.Donation[NextId(DB)].transaction_id = 0
    /\ \A net \in {"auth_failed", "http_error"} : capture_order(1, net).error
    /\ \A net \in VerifyNet :
          (net.http = "error" \/ ~net.status \/ net.data_status # "success") =>
              verify_transaction(1, net).status \in {"error", "failed"}

\* C18: a provider's settlement trigger (redirect callback or webhook) fired
\* for a donation that is already completed is answered as a success and
\* credits nothing.
C18_DoubleSettlementReportedSuccess ==
    \A d \in Rows :
        Donation[d].status = "completed" =>
            \A op \in ProviderTriggers(d) :
                /\ Trigger(DB, op, d).code \in {"success", "200"}
                /\ Trigger(DB, op, d).db = DB

\* C19: a redirect callback writes a donation's status or a campaign's
\* raised_amount only from the result of its adapter's verification call, and
\* only when the provider's own status is the success value ('success' for
\* Paystack, 'COMPLETED' for PayPal): a failed, pending, erroneous or
\* malformed verification leaves every table as it was.
C19_CallbackSettlesOnlyOnVerifiedSuccess ==
    /\ \A reference \in DonationIds \cup {0} : \A net \in VerifyNet :
          (net.http = "error" \/ ~net.status \/ net.data_status # "success") =>
              paystack_callback(DB, reference, net) = Reply(DB, "danger")
    /\ \A donation_id \in DonationIds \cup {0} : \A token \in {0, 1} :
       \A net \in CaptureNet :
          net # "COMPLETED" =>
              paypal_success(DB, donation_id, token, net) = Reply(DB, "danger")

\* C19 witness: the Paystack callback was refused for the reference of a
\* donation that is pending, which only an unsuccessful verification explains.
C19_Witness ==
    /\ last.op = "paystack_callback" /\ last.code = "danger" /\ last.id \in Rows
    /\ Donation[last.id].transaction_id = last.id
    /\ Donation[last.id].status = "pending"
    /\ FirstByTransactionId(DB, last.id) = last.id

\* C20: a donation made with a manual method (bank; crypto too under main.py)
\* is always sent to the manual instructions when it is initiated, and no
\* provider webhook or redirect callback, paypal_success with its id included,
\* changes its status: only the admin's confirm and reject do.
ManualTypes == {"bank", "crypto"}

C20_ManualOnlyAdvancedByAdmin ==
    /\ \A c \in CampaignIds : \A form \in Forms : \A net \in InitiateNet :
          (form.payment_method = "bank" /\ FormValid(DB, form)) =>
              donate(DB, c, form, net).code = "instructions"
    /\ \A c \in CampaignIds : \A form \in MainForms :
          (/\ form.payment_method \in MethodIds
           /\ PaymentMethod[form.payment_method].type \in ManualTypes
           /\ form.amount.kind = "number" /\ form.amount.value > 0
           /\ form.donor_ok) =>
              main_donate(DB, c, form, TRUE).code = "instructions"
    /\ \A d \in Rows :
          Donation[d].payment_method = "bank" =>
              \A op \in ProviderTriggers(d) :
                  Trigger(DB, op, d).db.Donation[d].status = Donation[d].status

\* C21: a verified provider event or callback settles only the donation whose
\* stored transaction_id equals the reference the event carries (Paystack
\* data.reference, Coinbase charge id, PayPal order token), never one whose
\* transaction_id differs from it or is not set.
SettlesByReference(db, r, reference) ==
    r.settled # 0 => db.Donation[r.settled].transaction_id = reference

C21_SettlesOnlyMatchingReference ==
    /\ \A body \in PaystackBodies :
          SettlesByReference(DB, paystack_webhook(DB, "secret",
                                     Hmac("sha512", "secret", body), body), body.reference)
    /\ \A reference \in DonationIds \cup {0} : \A net \in VerifyNet :
          SettlesByReference(DB, paystack_callback(DB, reference, net), reference)
    /\ \A body \in CoinbaseBodies :
          SettlesByReference(DB, coinbase_webhook(DB, "secret",
                                     Hmac("sha256", "secret", body), body), body.reference)
    /\ \A donation_id \in DonationIds : \A token \in DonationIds : \A net \in CaptureNet :
          SettlesByReference(DB, paypal_success(DB, donation_id, token, net), token)

\* C22: confirm_donation and reject_donation called by a visitor who is not
\* logged in, or by a user who is not an admin, are turned away and leave every
\* donation and every campaign as they were.
C22_AdminActionsGated ==
    \A user \in Users \ {"admin"} : \A id \in DonationIds :
        /\ confirm_donation(DB, user, id) = Reply(DB, "denied")
        /\ reject_donation(DB, user, id) = Reply(DB, "denied")

\* C22 witness: a caller who is not an admin was turned away from
\* confirm_donation on a donation the admin could have confirmed.
C22_Witness ==
    /\ last.op = "confirm_donation" /\ last.code = "denied" /\ last.id \in Rows
    /\ Donation[last.id].status \in {"pending", "awaiting_verification"}
    /\ Campaign[Donation[last.id].campaign_id].raised_amount = 0

\* C23: adding a payment method whose form leaves out a field its type
\* requires fails with a validation error that names every missing field, and
\* no PaymentMethod row is persisted.
C23_IncompleteMethodNotPersisted ==
    \A form \in MethodForms :
        (form.name_ok /\ form.type \in MethodTypes
         /\ form.filled # RequiredFields(form.type)) =>
            /\ validate_payment_data(form) = RequiredFields(form.type) \ form.filled
            /\ validate_payment_data(form) # {}
            /\ payment_methods(DB, "admin", form).code = "invalid"
            /\ payment_methods(DB, "admin", form).db.PaymentMethod = PaymentMethod

\* C24: in each webhook endpoint the payload is parsed only after the
\* signature check over the raw body has passed, the tables are written only
\* on the parsed event, and a request whose check fails or raises goes
\* straight to its answer (400 or 500) unparsed and with nothing written.
C24_VerifyBeforeParse ==
    [][hook' # hook =>
         /\ hook'.event # "unparsed" => HookVerify(hook') = Returns(TRUE)
         /\ Tables(DB)' # Tables(DB) => (hook.pc = "parsed" /\ hook.event = hook.body.event)
         /\ (hook.pc = "received" /\ HookVerify(hook) # Returns(TRUE)) =>
               /\ hook'.pc = "answered" /\ hook'.code \in {"400", "500"}
               /\ hook'.event = "unparsed"
               /\ Tables(DB)' = Tables(DB)]_vars

\* C24 witness: a success event naming a pending donation was answered 400 on
\* its signature, unparsed, and the donation is still pending.
C24_Witness ==
    /\ hook.pc = "answered" /\ hook.code = "400" /\ hook.event = "unparsed"
    /\ hook.body.event \in {"charge.success", "charge:confirmed"}
    /\ \E d \in Rows :
          /\ Donation[d].status = "pending"
          /\ Donation[d].transaction_id = hook.body.reference

\* C25: the amount the Paystack adapter sends is the donation amount times the
\* configured exchange rate (the default rate, 1, when none is configured), in
\* minor units, rounded half-up to the nearest minor unit.
RoundHalfUpMinor(amount, rate) ==
    (amount * (IF rate = 0 THEN 1 ELSE rate) * 100 + 500) \div 1000

C25_SentAmountRoundedHalfUp ==
    payload.amount_kobo # Unsent =>
        payload.amount_kobo = RoundHalfUpMinor(payload.amount, payload.rate)

\* C26: once start_self_ping has been called with self-ping enabled, exactly
\* one ping loop is running however often it is called, and that loop
\* eventually sends a request to /health.
C26_OnePingLoopThatPings ==
    /\ [](keepalive.KEEPALIVE_STARTED => keepalive.loops = 1)
    /\ (keepalive.KEEPALIVE_STARTED ~> keepalive.pings > 0)

\* C27: in every reachable state, from a campaign with raised_amount 0 and no
\* donations, each campaign's raised_amount is the sum of the amounts of its
\* donations whose status is 'completed', whatever requests have been served.
C27_RaisedIsSumOfCompleted ==
    \A c \in CampaignIds :
        SumAmounts({d \in Rows : Donation[d].campaign_id = c
                                 /\ Donation[d].status = "completed"})
            = Campaign[c].raised_amount

\* C28: when two workers settle two different pending donations of one
\* campaign at once, no credit is lost: once both have committed, the
\* campaign's raised_amount is not below the amounts of its completed donations.
C28_NoLostCredit ==
    (\A w \in Workers : session[w].pc = "idle") =>
        \A c \in CampaignIds : Campaign[c].raised_amount >= SumCompleted(c)

\* C29: a correctly signed webhook whose event type is not the success type,
\* or whose reference is stored on no donation, or whose donation is not
\* pending, is answered 200 and leaves every donation's status and every
\* campaign's raised_amount as they were.
NothingToSettle(db, body, success) ==
    /\ body.event # "missing"
    /\ \/ body.event # success
       \/ FirstByTransactionId(db, body.reference) = 0
       \/ db.Donation[FirstByTransactionId(db, body.reference)].status # "pending"

C29_WebhookWithNothingToSettle ==
    /\ \A body \in PaystackBodies :
          NothingToSettle(DB, body, "charge.success") =>
              paystack_webhook(DB, "secret", Hmac("sha512", "secret", body), body)
                  = Reply(DB, "200")
    /\ \A body \in CoinbaseBodies :
          NothingToSettle(DB, body, "charge:confirmed") =>
              coinbase_webhook(DB, "secret", Hmac("sha256", "secret", body), body)
                  = Reply(DB, "200")

\* C30: reject_donation, confirm_manual_payment and donation_cancel change
\* nothing but the status of the donation they are called on: every campaign's
\* raised_amount, every donation's amount and every other donation's status
\* stay as they were.
OnlyStatusOf(db, d) ==
    /\ db.Campaign = Campaign
    /\ db.PaymentMethod = PaymentMethod
    /\ \A e \in DonationIds :
          IF e = d THEN [db.Donation[e] EXCEPT !.status = Donation[e].status] = Donation[e]
          ELSE db.Donation[e] = Donation[e]

C30_StatusOnlyOperations ==
    \A d \in DonationIds :
        /\ \A user \in Users : OnlyStatusOf(reject_donation(DB, user, d).db, d)
        /\ OnlyStatusOf(confirm_manual_payment(DB, d).db, d)
        /\ OnlyStatusOf(donation_cancel(DB, d).db, d)

\* C30 witness: a credited, completed donation has just been cancelled by
\* donation_cancel; the campaign still carries its amount and the other
\* donation is still pending.
C30_Witness ==
    /\ last.op = "donation_cancel" /\ last.id \in Rows
    /\ Donation[last.id].status = "cancelled"
    /\ Campaign[Donation[last.id].campaign_id].raised_amount = Donation[last.id].amount
    /\ \E e \in Rows \ {last.id} : Donation[e].status = "pending"
====
